---- MODULE Spec2Model ----
(***************************************************************************)
(* A model of src/2048.py: the engine Game2048Logic (board, compress,      *)
(* merge, reverse, transpose, the four moves, add_new_tile,                *)
(* check_game_over) and the event handlers of Game2048GUI (the four arrow  *)
(* keys, show_game_over, restart_game).                                    *)
(*                                                                         *)
(* A board is a sequence of rows, a row a sequence of cells; indices are   *)
(* 1-based here and 0-based in the source.  The cells are numpy int64:     *)
(* no value the model reaches comes near 2^63, so plain integers are used. *)
(* numpy's fliplr and .T return views, but compress always stores a fresh  *)
(* array before merge and add_new_tile write to it, so no write ever goes  *)
(* through a view and the operations have value semantics.                 *)
(***************************************************************************)
EXTENDS Integers, Sequences, FiniteSets

VARIABLES
    size,       \* Game2048Logic.size
    board,      \* Game2048Logic.board
    grid,       \* number of rows (= columns) of Game2048GUI.grid_cells
    banners,    \* number of game_over_frame widgets placed so far
    events,     \* number of events handled since the program started
    op,         \* the event or call handled last
    ret,        \* what the engine call of the last event returned
    rendered,   \* whether the last handler called update_grid
    signalled,  \* whether the last handler called show_game_over
    arg         \* the board a direct engine call was made on (<<>> in the game)

vars == <<size, board, grid, banners, events, op, ret, rendered, signalled, arg>>

\* ------------------------------------------------------------ bounds
\* Largest board size a game is constructed with (the smallest is 2).
MaxSize == 2
\* Number of events (arrow keys, restarts) a run of the game handles.
MaxEvents == 3
\* Largest exponent of a tile in the boards handed to the engine directly.
MaxExp == 3
\* Largest size handed to the constructor directly.
MaxBuild == 3
\* How far below zero the sizes handed to the constructor go.
MaxNeg == 1

\* ------------------------------------------------------------ constants
\* def __init__(self, size=4)
DefaultSize == 4

Dirs == {"left", "right", "up", "down"}

\* The sequence f itself, as a tuple: the value is unchanged, and an
\* expression [i \in 1..n |-> e] is evaluated once instead of on every
\* access to one of its elements.
Tup(f) == SubSeq(f, 1, Len(f))

\* ------------------------------------------------------------ engine
\* np.zeros((size, size), dtype=int)
ZeroBoard(n) == Tup([i \in 1..n |-> Tup([j \in 1..n |-> 0])])

\* list(zip(*np.where(self.board == 0)))
EmptyCells(b) == {c \in (1..Len(b)) \X (1..Len(b)) : b[c[1]][c[2]] = 0}

\* Mutant of add_new_tile: the cell is drawn from all cells, empty or not.
add_new_tile_any_cell(b) ==
    {[b EXCEPT ![c[1]][c[2]] = v] : c \in (1..Len(b)) \X (1..Len(b)), v \in {2, 4}}

\* add_new_tile: every board the call can leave behind. A random empty cell
\* gets 2 (probability 0.9) or 4; with no empty cell nothing is written.
add_new_tile(b) ==
    IF EmptyCells(b) = {}
    THEN {b}
    ELSE {[b EXCEPT ![c[1]][c[2]] = v] : c \in EmptyCells(b), v \in {2, 4}}

\* Mutant of init_board: add_new_tile is called once.
init_board_one_tile(n) == add_new_tile(ZeroBoard(n))

\* __init__: every board construction can produce (two add_new_tile calls on
\* the zero board).
init_board(n) == UNION {add_new_tile(b) : b \in add_new_tile(ZeroBoard(n))}

\* Game2048Logic(n): every object the constructor can leave behind. No size is
\* tested; np.zeros raises ValueError for a negative dimension, the except
\* branch prints the error and the object is left with size set and no board
\* attribute (written <<>> here: every method then raises AttributeError,
\* which its own except branch turns into False, or True for
\* check_game_over, as the loops over an empty board do). For n >= 0 the body
\* runs to its end.
construct(n) ==
    IF n < 0
    THEN {[board |-> <<>>, op |-> "error"]}
    ELSE {[board |-> b, op |-> "init"] : b \in init_board(n)}

\* The inner loop of compress over one row: j is the cell read, position the
\* next cell of new_row to write, moved the flag.
RECURSIVE CompressLoop(_, _, _, _, _)
CompressLoop(row, j, position, new_row, moved) ==
    IF j > Len(row)
    THEN [row |-> new_row, moved |-> moved]
    ELSE IF row[j] # 0
         THEN CompressLoop(row, j + 1, position + 1,
                           [new_row EXCEPT ![position] = row[j]],
                           moved \/ position # j)
         ELSE CompressLoop(row, j + 1, position, new_row, moved)

CompressRow(row) ==
    CompressLoop(row, 1, 1, Tup([k \in 1..Len(row) |-> 0]), FALSE)

\* compress: the new board and the returned flag.
compress(b) ==
    LET rows == Tup([i \in 1..Len(b) |-> CompressRow(b[i])])
    IN  [board |-> Tup([i \in 1..Len(b) |-> rows[i].row]),
         moved |-> \E i \in 1..Len(b) : rows[i].moved]

\* The inner loop of merge over one row, for j in range(size - 1), writing
\* the row in place.
RECURSIVE MergeLoop(_, _, _)
MergeLoop(row, j, merged) ==
    IF j > Len(row) - 1
    THEN [row |-> row, merged |-> merged]
    ELSE IF row[j] = row[j + 1] /\ row[j] # 0
         THEN MergeLoop([row EXCEPT ![j] = row[j] * 2, ![j + 1] = 0], j + 1, TRUE)
         ELSE MergeLoop(row, j + 1, merged)

\* Mutants of the merge loop. "add": the tile grows by 2 instead of doubling.
\* "cascade": the doubled value is written to the right cell of the pair, where
\* the next step compares it again. "keep": the right cell is not set to zero.
\* "drop": the left cell is not doubled.
RECURSIVE MergeLoopMutant(_, _, _, _)
MergeLoopMutant(row, j, merged, kind) ==
    IF j > Len(row) - 1
    THEN [row |-> row, merged |-> merged]
    ELSE IF row[j] = row[j + 1] /\ row[j] # 0
         THEN MergeLoopMutant(
                  CASE kind = "add" -> [row EXCEPT ![j] = row[j] + 2, ![j + 1] = 0]
                    [] kind = "cascade" -> [row EXCEPT ![j] = 0, ![j + 1] = row[j] * 2]
                    [] kind = "keep" -> [row EXCEPT ![j] = row[j] * 2]
                    [] kind = "drop" -> [row EXCEPT ![j + 1] = 0],
                  j + 1, TRUE, kind)
         ELSE MergeLoopMutant(row, j + 1, merged, kind)

MergeRow_add(row) == MergeLoopMutant(row, 1, FALSE, "add")

MergeRow_cascade(row) == MergeLoopMutant(row, 1, FALSE, "cascade")

MergeRow_keep(row) == MergeLoopMutant(row, 1, FALSE, "keep")

MergeRow_drop(row) == MergeLoopMutant(row, 1, FALSE, "drop")

MergeRow(row) == MergeLoop(row, 1, FALSE)

\* merge: the board after the in-place merges and the returned flag.
merge(b) ==
    LET rows == Tup([i \in 1..Len(b) |-> MergeRow(b[i])])
    IN  [board |-> Tup([i \in 1..Len(b) |-> rows[i].row]),
         merged |-> \E i \in 1..Len(b) : rows[i].merged]

\* Mutant of reverse: np.flipud, the rows in reverse order.
reverse_flipud(b) ==
    Tup([i \in 1..Len(b) |-> b[Len(b) + 1 - i]])

\* reverse: np.fliplr
reverse(b) ==
    Tup([i \in 1..Len(b) |-> Tup([j \in 1..Len(b) |-> b[i][Len(b) + 1 - j]])])

\* transpose: board.T
transpose(b) ==
    Tup([i \in 1..Len(b) |-> Tup([j \in 1..Len(b) |-> b[j][i]])])

\* Mutant of slide_left: the returned flag is "moved" alone.
slide_left_moved_only(b) ==
    LET c == compress(b)
        m == merge(c.board)
    IN  [board |-> IF m.merged THEN compress(m.board).board ELSE m.board,
         changed |-> c.moved]

\* move_left up to the spawn: compress, merge, compress again after a merge.
\* changed is "moved or merged".
slide_left(b) ==
    LET c == compress(b)
        m == merge(c.board)
    IN  [board |-> IF m.merged THEN compress(m.board).board ELSE m.board,
         changed |-> c.moved \/ m.merged]

\* Mutant of move_left: add_new_tile is called whether or not the board changed.
move_left_always_spawns(b) ==
    LET s == slide_left(b)
    IN  {[board |-> t, ret |-> s.changed] : t \in add_new_tile(s.board)}

\* move_left: every outcome, the board left behind and the value returned.
move_left(b) ==
    LET s == slide_left(b)
    IN  IF s.changed
        THEN {[board |-> t, ret |-> TRUE] : t \in add_new_tile(s.board)}
        ELSE {[board |-> s.board, ret |-> FALSE]}

\* move_right: reverse, move_left, reverse.
move_right(b) ==
    {[board |-> reverse(o.board), ret |-> o.ret] : o \in move_left(reverse(b))}

\* move_up: transpose, move_left, transpose.
move_up(b) ==
    {[board |-> transpose(o.board), ret |-> o.ret] : o \in move_left(transpose(b))}

\* Mutant of move_down: move_left is called between the transposes.
move_down_calls_left(b) ==
    {[board |-> transpose(o.board), ret |-> o.ret] : o \in move_left(transpose(b))}

\* move_down: transpose, move_right, transpose.
move_down(b) ==
    {[board |-> transpose(o.board), ret |-> o.ret] : o \in move_right(transpose(b))}

\* The engine method an arrow key is bound to.
move(b, d) ==
    CASE d = "left"  -> move_left(b)
      [] d = "right" -> move_right(b)
      [] d = "up"    -> move_up(b)
      [] d = "down"  -> move_down(b)

\* Mutant of check_game_over: only the pairs within a row are compared.
check_game_over_rows_only(b) ==
    IF \E i \in 1..Len(b) : \E j \in 1..Len(b) : b[i][j] = 0
    THEN FALSE
    ELSE ~ \E i \in 1..Len(b) : \E j \in 1..(Len(b) - 1) : b[i][j] = b[i][j + 1]

\* Mutant of check_game_over: the outer loop is range(size - 1) too.
check_game_over_short_scan(b) ==
    IF \E i \in 1..Len(b) : \E j \in 1..Len(b) : b[i][j] = 0
    THEN FALSE
    ELSE ~ \E i \in 1..(Len(b) - 1) : \E j \in 1..(Len(b) - 1) :
               b[i][j] = b[i][j + 1] \/ b[j][i] = b[j + 1][i]

\* Mutant of check_game_over: a full board is always reported as over.
check_game_over_full_board(b) ==
    ~ \E i \in 1..Len(b) : \E j \in 1..Len(b) : b[i][j] = 0

\* check_game_over: False with an empty cell; False when for some i in
\* range(size), j in range(size - 1) board[i][j] == board[i][j+1] or
\* board[j][i] == board[j+1][i]; True otherwise.
check_game_over(b) ==
    IF \E i \in 1..Len(b) : \E j \in 1..Len(b) : b[i][j] = 0
    THEN FALSE
    ELSE ~ \E i \in 1..Len(b) : \E j \in 1..(Len(b) - 1) :
               b[i][j] = b[i][j + 1] \/ b[j][i] = b[j + 1][i]

\* ------------------------------------------------------------ the game
\* Game2048Logic(n) followed by Game2048GUI(root, game_logic): the grid of
\* labels is built n x n and update_grid is called once.
Init ==
    /\ size \in 2..MaxSize
    /\ board \in init_board(size)
    /\ grid = size
    /\ banners = 0
    /\ events = 0
    /\ op = "init"
    /\ ret = FALSE
    /\ rendered = TRUE
    /\ signalled = FALSE
    /\ arg = <<>>

\* Mutant of the key handlers: check_game_over is tested after every move,
\* changed or not.
Key_checks_after_every_move(d) ==
    /\ events < MaxEvents
    /\ \E o \in move(board, d) :
          /\ board' = o.board
          /\ ret' = o.ret
          /\ rendered' = o.ret
          /\ signalled' = check_game_over(board')
          /\ banners' = IF signalled' THEN banners + 1 ELSE banners
    /\ op' = d
    /\ events' = events + 1
    /\ UNCHANGED <<size, grid, arg>>

\* Game2048GUI.move_left / move_right / move_up / move_down: the engine move;
\* if it returned True, update_grid, then show_game_over if check_game_over.
Key(d) ==
    /\ events < MaxEvents
    /\ \E o \in move(board, d) :
          /\ board' = o.board
          /\ ret' = o.ret
          /\ rendered' = o.ret
          /\ signalled' = (o.ret /\ check_game_over(board'))
          /\ banners' = IF signalled' THEN banners + 1 ELSE banners
    /\ op' = d
    /\ events' = events + 1
    /\ UNCHANGED <<size, grid, arg>>

KeyLeft == Key("left")

KeyRight == Key("right")

KeyUp == Key("up")

KeyDown == Key("down")

\* Game2048GUI.restart_game, the command of the Restart button that every
\* game-over frame carries (no frame is ever destroyed): game_logic.__init__()
\* with the default size, then update_grid.
RestartGame ==
    /\ events < MaxEvents
    /\ banners > 0
    /\ size' = DefaultSize
    /\ board' \in init_board(DefaultSize)
    /\ op' = "restart"
    /\ ret' = FALSE
    /\ rendered' = TRUE
    /\ signalled' = FALSE
    /\ events' = events + 1
    /\ UNCHANGED <<grid, banners, arg>>

Next == KeyLeft \/ KeyRight \/ KeyUp \/ KeyDown \/ RestartGame

Spec == Init /\ [][Next]_vars

\* ------------------------------------------------------------ direct calls
\* The engine called directly, as a test of one method would: a board is
\* put into a default-size engine and one method is called on it.

\* 0 and the tiles 2, 4, .., 2^MaxExp.
Tiles == {0} \cup {2^k : k \in 1..MaxExp}

\* A full board of 2s and 4s with no two equal neighbours.
Checker(n) ==
    Tup([i \in 1..n |-> Tup([j \in 1..n |-> IF (i + j) % 2 = 0 THEN 2 ELSE 4])])

\* The boards handed to the engine: the empty board and the checkerboard,
\* with any one row, or any one column, replaced by any row of Tiles.
InputBoards ==
    LET n == DefaultSize
        byRow == {[base EXCEPT ![r] = row] :
                     base \in {ZeroBoard(n), Checker(n)},
                     r \in 1..n, row \in {Tup(f) : f \in [1..n -> Tiles]}}
    IN  byRow \cup {transpose(b) : b \in byRow}

EngineInit ==
    /\ size = DefaultSize
    /\ board \in InputBoards
    /\ arg = board
    /\ grid = DefaultSize
    /\ banners = 0
    /\ events = 0
    /\ op = "init"
    /\ ret = FALSE
    /\ rendered = FALSE
    /\ signalled = FALSE

\* game_logic.move_left() / move_right() / move_up() / move_down()
Call(d) ==
    /\ op \in {"init", "error"}
    /\ \E o \in move(board, d) :
          /\ board' = o.board
          /\ ret' = o.ret
    /\ op' = d
    /\ events' = events + 1
    /\ UNCHANGED <<size, grid, banners, rendered, signalled, arg>>

CallLeft == Call("left")

CallRight == Call("right")

CallUp == Call("up")

CallDown == Call("down")

\* game_logic.check_game_over()
CallCheck ==
    /\ op \in {"init", "error"}
    /\ ret' = check_game_over(board)
    /\ op' = "check"
    /\ events' = events + 1
    /\ UNCHANGED <<size, board, grid, banners, rendered, signalled, arg>>

EngineNext == CallLeft \/ CallRight \/ CallUp \/ CallDown \/ CallCheck

SpecEngine == EngineInit /\ [][EngineNext]_vars

\* ------------------------------------------------------------ construction
\* Game2048Logic(n) called with any integer n, then one method of the object.
ConstructInit ==
    /\ size \in (0 - MaxNeg)..MaxBuild
    /\ \E o \in construct(size) :
          /\ board = o.board
          /\ op = o.op
    /\ arg = board
    /\ grid = 0
    /\ banners = 0
    /\ events = 0
    /\ ret = FALSE
    /\ rendered = FALSE
    /\ signalled = FALSE

SpecConstruct == ConstructInit /\ [][EngineNext]_vars

\* ------------------------------------------------------------ helpers
Cells(b) == (1..Len(b)) \X (1..Len(b))

RECURSIVE SumTo(_, _)
SumTo(row, k) == IF k = 0 THEN 0 ELSE row[k] + SumTo(row, k - 1)

\* The sum of all cells of a board.
Sum(b) == SumTo([i \in 1..Len(b) |-> SumTo(b[i], Len(b))], Len(b))

RECURSIVE IsPowerOfTwo(_)
IsPowerOfTwo(v) == v = 2 \/ (v > 2 /\ v % 2 = 0 /\ IsPowerOfTwo(v \div 2))

\* The board a move in direction d holds just before it spawns: the
\* orientation transforms of the move around slide_left.
slide(b, d) ==
    CASE d = "left"  -> slide_left(b).board
      [] d = "right" -> reverse(slide_left(reverse(b)).board)
      [] d = "up"    -> transpose(slide_left(transpose(b)).board)
      [] d = "down"  -> transpose(reverse(slide_left(reverse(transpose(b))).board))

\* The cells in which two boards of one size differ.
Diff(a, b) == {c \in Cells(a) : a[c[1]][c[2]] # b[c[1]][c[2]]}

\* ------------------------------------------------------------ claims

\* C1: in every state reachable by moves and restarts, every cell of the
\* board is 0 or a power of two that is at least 2.
C1_PowersOfTwo ==
    \A c \in Cells(board) :
        board[c[1]][c[2]] = 0 \/ IsPowerOfTwo(board[c[1]][c[2]])

\* C1 witness: a move has merged two 4s into an 8.
C1_Witness ==
    /\ op \in Dirs
    /\ \E c \in Cells(board) : board[c[1]][c[2]] = 8

\* C2: a move that returns changed = FALSE leaves the board cell for cell
\* as it was: nothing slid, nothing merged, no tile spawned.
C2_UnchangedMoveKeepsBoard ==
    [][(op' \in Dirs /\ ret' = FALSE) => board' = board]_vars

\* C2 witness: a down move has returned FALSE on a board that still has an
\* empty cell.
C2_Witness ==
    /\ op = "down"
    /\ ret = FALSE
    /\ EmptyCells(board) # {}

\* C3: a move that returns changed = TRUE spawns exactly one tile: the board
\* after it differs from the slid-and-merged board in exactly one cell, which
\* was empty after the slide and now holds 2 or 4.
C3_ChangedMoveSpawnsOne ==
    [][(op' \in Dirs /\ ret' = TRUE) =>
        \A slid \in {slide(board, op')} :
            \E c \in Cells(slid) :
                /\ slid[c[1]][c[2]] = 0
                /\ board'[c[1]][c[2]] \in {2, 4}
                /\ Diff(slid, board') = {c}]_vars

\* C3 witness: a changed move has filled the last empty cell of the board.
C3_Witness ==
    /\ op \in Dirs
    /\ ret = TRUE
    /\ EmptyCells(board) = {}

\* ---- reference definitions, written from the statements of the claims

\* The non-zero values of a sequence, in order.
NonZero(s) == SelectSeq(s, LAMBDA x : x # 0)

\* Equal neighbours of a zero-free sequence merged greedily from the front,
\* each value taking part in at most one merge.
RECURSIVE Greedy(_)
Greedy(s) ==
    IF Len(s) < 2 THEN s
    ELSE IF s[1] = s[2]
         THEN <<2 * s[1]>> \o Greedy(SubSeq(s, 3, Len(s)))
         ELSE <<s[1]>> \o Greedy(Tail(s))

\* The single-pass, no-cascade result of moving a row to the left.
LeftRow(row) ==
    LET g == Greedy(NonZero(row))
    IN  g \o Tup([k \in 1..(Len(row) - Len(g)) |-> 0])

\* The i-th line of a board read from the edge that direction d names.
Line(b, d, i) ==
    Tup([k \in 1..Len(b) |->
            CASE d = "left"  -> b[i][k]
              [] d = "right" -> b[i][Len(b) + 1 - k]
              [] d = "up"    -> b[k][i]
              [] d = "down"  -> b[Len(b) + 1 - k][i]])

\* What the greedy merges of a zero-free sequence add up to when each merge
\* of two values v counts v.
RECURSIVE MergeGain(_)
MergeGain(s) ==
    IF Len(s) < 2 THEN 0
    ELSE IF s[1] = s[2]
         THEN s[1] + MergeGain(SubSeq(s, 3, Len(s)))
         ELSE MergeGain(Tail(s))

\* The merged amount of a move of board b in direction d.
MergedAmount(b, d) ==
    SumTo([i \in 1..Len(b) |-> MergeGain(NonZero(Line(b, d, i)))], Len(b))

\* The value of the tile spawned between the slid board and the final one
\* (0 when none was).
SpawnedValue(slid, new) ==
    IF Diff(slid, new) = {} THEN 0
    ELSE LET c == CHOOSE c \in Diff(slid, new) : TRUE IN new[c[1]][c[2]]

\* No empty cell and no two equal neighbours in any row or column.
Terminal(b) ==
    /\ \A c \in Cells(b) : b[c[1]][c[2]] # 0
    /\ \A i \in 1..Len(b) : \A j \in 1..(Len(b) - 1) : b[i][j] # b[i][j + 1]
    /\ \A i \in 1..(Len(b) - 1) : \A j \in 1..Len(b) : b[i][j] # b[i + 1][j]

\* An n x n board with exactly two tiles, each 2 or 4.
TwoTiles(b, n) ==
    /\ Len(b) = n
    /\ \A i \in 1..n : Len(b[i]) = n
    /\ Cardinality(Cells(b) \ EmptyCells(b)) = 2
    /\ \A c \in Cells(b) : b[c[1]][c[2]] \in {0, 2, 4}

\* C4: a left move turns every row, before the spawn, into its single-pass
\* no-cascade result; the board the call leaves is that result plus at most
\* a spawned tile in an empty cell; [2,2,4,4] gives [4,8,0,0] with changed =
\* TRUE and [2,2,2,2] gives [4,4,0,0].
C4_LeftMoveRows ==
    op = "left" =>
        \A slid \in {slide_left(arg)} : \A i \in 1..Len(arg) :
            \A want \in {LeftRow(arg[i])} :
                /\ slid.board[i] = want
                /\ \A j \in 1..Len(want) :
                       \/ board[i][j] = want[j]
                       \/ want[j] = 0 /\ board[i][j] \in {2, 4}
                /\ arg[i] = <<2, 2, 4, 4>> => want = <<4, 8, 0, 0>> /\ ret = TRUE
                /\ arg[i] = <<2, 2, 2, 2>> => want = <<4, 4, 0, 0>> /\ ret = TRUE

\* C4 witness: move_left has been called on a board with the row [2,2,4,4].
C4_Witness ==
    /\ op = "left"
    /\ ret = TRUE
    /\ \E i \in 1..Len(arg) : arg[i] = <<2, 2, 4, 4>>

\* C5 as stated: the sum after a move is the sum before, plus the merged
\* amount (v for each merge of two values v), plus the spawned tile.
C5_SumGrowsByMerges ==
    [][op' \in Dirs =>
        \A slid \in {slide(board, op')} :
            Sum(board') = Sum(board) + MergedAmount(board, op')
                                     + SpawnedValue(slid, board')]_vars

\* C5 amended: a merge replaces two tiles v by one tile 2v and leaves the
\* sum as it is, so the sum after a move is the sum before plus the value of
\* the spawned tile: 2 or 4 after a changed move, nothing otherwise.
C5_SumGrowsBySpawn ==
    [][op' \in Dirs =>
        \A slid \in {slide(board, op')} :
            /\ Sum(board') = Sum(board) + SpawnedValue(slid, board')
            /\ SpawnedValue(slid, board') \in (IF ret' THEN {2, 4} ELSE {0})]_vars

\* C5 witness: the first move of a game has merged two 4s (a new board holds
\* only 2s and 4s, and a spawn adds at most a 4).
C5_Witness ==
    /\ events = 1
    /\ op \in Dirs
    /\ ret = TRUE
    /\ \E c \in Cells(board) : board[c[1]][c[2]] = 8

\* C6: check_game_over returns TRUE exactly when no cell is empty and no two
\* horizontally or vertically adjacent cells are equal.
C6_GameOverIffTerminal ==
    op = "check" => ret = Terminal(board)

\* C6 witness: check_game_over has returned TRUE.
C6_Witness ==
    /\ op = "check"
    /\ ret = TRUE

\* C7: on every reachable board check_game_over is TRUE exactly when no
\* outcome of any of the four moves reports a change.
C7_GameOverIffNoMove ==
    check_game_over(board) =
        (\A d \in Dirs : \A o \in move(board, d) : o.ret = FALSE)

\* C7 witness: a move has filled the board and a move is still possible.
C7_Witness ==
    /\ op \in Dirs
    /\ EmptyCells(board) = {}
    /\ ~ check_game_over(board)

\* C8: game over is signalled in the handler whose move makes the board
\* terminal, a terminal board has always been signalled, and an unchanged
\* move neither renders nor signals.
C8_GameOverSignalled ==
    /\ [](check_game_over(board) => banners > 0)
    /\ [][op' \in Dirs =>
            /\ signalled' = (~ check_game_over(board) /\ check_game_over(board'))
            /\ banners' = (IF signalled' THEN banners + 1 ELSE banners)
            /\ ret' = FALSE => (~ rendered' /\ ~ signalled')
            /\ ret' = TRUE => rendered']_vars

\* C8 witness: the handler of the last key has called show_game_over.
C8_Witness ==
    /\ op \in Dirs
    /\ signalled = TRUE
    /\ check_game_over(board)

\* C9: once the board is terminal, an arrow key changes nothing and signals
\* nothing; the board only changes by restart_game, which leaves a new board
\* of two tiles that is not terminal.
C9_GameOverAbsorbing ==
    [][check_game_over(board) =>
        /\ op' \in Dirs =>
              (board' = board /\ banners' = banners /\ ~ signalled' /\ ~ ret')
        /\ board' # board =>
              (op' = "restart" /\ TwoTiles(board', size') /\ ~ check_game_over(board'))]_vars

\* C9 witness: an arrow key has been handled on a terminal board.
C9_Witness ==
    /\ op \in Dirs
    /\ ret = FALSE
    /\ banners = 1
    /\ check_game_over(board)

\* C10: right after construction and right after every restart the board
\* has exactly two tiles, each 2 or 4, and check_game_over is FALSE.
C10_NewBoard ==
    op \in {"init", "restart"} =>
        (TwoTiles(board, size) /\ ~ check_game_over(board))

\* C10 witness: restart_game has just run.
C10_Witness ==
    /\ op = "restart"
    /\ banners > 0

\* C11 as stated: construction is rejected exactly when size < 2, and succeeds
\* for every size >= 2.
C11_RejectsSizeBelowTwo ==
    events = 0 => ((op = "error") <=> (size < 2))

\* C11 witness: Game2048Logic(1) has run to its end and left a usable 1 x 1
\* engine, whose board is already over.
C11_Witness ==
    /\ events = 0
    /\ size = 1
    /\ op = "init"
    /\ Len(board) = 1
    /\ check_game_over(board)

\* C12: for every row in which a left move merges nothing, the slide of a
\* left move followed by the slide of a right move keeps the non-zero values
\* and their order and leaves them packed against the right edge, on the
\* mirror images of the cells they held after the left move.
C12_LeftRightRoundTrip ==
    op = "left" =>
        \A l \in {slide(arg, "left")} : \A r \in {slide(l, "right")} :
            \A i \in 1..Len(arg) :
                ~ MergeRow(CompressRow(arg[i]).row).merged =>
                    \A nz \in {NonZero(arg[i])} :
                        /\ NonZero(l[i]) = nz
                        /\ NonZero(r[i]) = nz
                        /\ r[i] = Tup([k \in 1..(Len(arg) - Len(nz)) |-> 0]) \o nz
                        /\ \A j \in 1..Len(arg) :
                               (r[i][j] # 0) <=> (l[i][Len(arg) + 1 - j] # 0)

\* C12 witness: move_left has been called on a board with the row [0,2,0,4],
\* which slides without a merge.
C12_Witness ==
    /\ op = "left"
    /\ \E i \in 1..Len(arg) :
          /\ arg[i] = <<0, 2, 0, 4>>
          /\ ~ MergeRow(CompressRow(arg[i]).row).merged

\* C13: every direction applies the row algorithm of the left move in a
\* canonical orientation and restores the orientation. With slide(B, d) the
\* compositions flip(left(flip(B))) for right, transpose(left(transpose(B)))
\* for up and transpose(flip(left(flip(transpose(B))))) for down, the board a
\* call of move_<d> leaves is slide(B, d) plus at most the spawned tile,
\* every line of it read from the edge the direction names is the left-move
\* result of that line of the input, and the column [2,2,2,0], top to
\* bottom, moved down becomes [0,0,2,4].
C13_DirectionsShareRowAlgorithm ==
    [][op' \in Dirs =>
        \A slid \in {slide(board, op')} :
            /\ \A diff \in {Diff(slid, board')} : \A c \in diff :
                   /\ slid[c[1]][c[2]] = 0
                   /\ diff = {c}
            /\ \A i \in 1..Len(board) :
                   \A line \in {Line(board, op', i)} : \A out \in {Line(slid, op', i)} :
                       out = LeftRow(line)
            /\ \A i \in 1..Len(board) :
                   (op' = "down" /\ Line(board, "up", i) = <<2, 2, 2, 0>>)
                       => Line(slid, "up", i) = <<0, 0, 2, 4>>]_vars

\* C13 witness: move_down has been called on a board with the column
\* [2,2,2,0], top to bottom.
C13_Witness ==
    /\ op = "down"
    /\ ret = TRUE
    /\ \E i \in 1..Len(arg) : Line(arg, "up", i) = <<2, 2, 2, 0>>

\* The board move_left works on inside a move in direction d.
Oriented(b, d) ==
    CASE d = "left"  -> b
      [] d = "right" -> reverse(b)
      [] d = "up"    -> transpose(b)
      [] d = "down"  -> reverse(transpose(b))

\* C14: the flag a move returns, (the first compress moved a tile) or (merge
\* combined a pair), is TRUE exactly when the board after sliding and
\* merging, before the spawn, differs from the board before the move.
C14_FlagIffBoardChanged ==
    [][op' \in Dirs =>
        \A o \in {Oriented(board, op')} :
            \A c \in {compress(o)} : \A m \in {merge(c.board)} :
                /\ ret' = (c.moved \/ m.merged)
                /\ \A slid \in {slide(board, op')} : ret' = (slid # board)]_vars

\* C14 witness: a move has returned TRUE on a board whose tiles were already
\* packed against the edge, so that only the merge changed it.
C14_Witness ==
    /\ op = "up"
    /\ ret = TRUE
    /\ ~ compress(Oriented(arg, op)).moved
    /\ merge(Oriented(arg, op)).merged

\* C15: the slide of a move (compress, merge, compress) leaves the sum of the
\* board as it was; a changed move adds exactly the spawned tile, 2 or 4, so
\* the sum grows strictly on every changed move and no move makes it smaller.
C15_SlideKeepsSum ==
    [][op' \in Dirs =>
        \A before \in {Sum(board)} : \A after \in {Sum(board')} :
            /\ \A slid \in {slide(board, op')} : Sum(slid) = before
            /\ ret' => (after - before \in {2, 4} /\ after > before)
            /\ ~ ret' => after = before
            /\ after >= before]_vars

\* C15 witness: a changed move late in a game has left a merged tile 8 on
\* the board.
C15_Witness ==
    /\ events >= 2
    /\ op \in Dirs
    /\ ret = TRUE
    /\ \E c \in Cells(board) : board[c[1]][c[2]] = 8

\* C16 as stated: restart_game preserves the board size: after a restart the
\* engine's size and the dimensions of its board are those of the grid of
\* labels built at start-up.
C16_RestartKeepsSize ==
    op = "restart" =>
        /\ size = grid
        /\ Len(board) = grid
        /\ \A i \in 1..Len(board) : Len(board[i]) = grid

\* C16 witness: restart_game has run in a game constructed with size 2 and
\* left a board of the default size under the 2 x 2 grid of labels.
C16_Witness ==
    /\ op = "restart"
    /\ rendered = TRUE
    /\ grid = 2
    /\ size = DefaultSize
    /\ Len(board) = DefaultSize

\* C17 as stated: at every point a game-over banner is displayed exactly when
\* the board is terminal, and at most one banner exists.
C17_BannerIffTerminal ==
    /\ (banners > 0) <=> check_game_over(board)
    /\ banners <= 1

\* C17 witness: restart_game has run and the banner placed before it is
\* still there, over a board that is not terminal.
C17_Witness ==
    /\ op = "restart"
    /\ signalled = FALSE
    /\ banners = 1
    /\ ~ check_game_over(board)

====
